---- MODULE Spec2Model ----
(***************************************************************************)
(* Model of sailo.py: the savings and debt simulators, the dashboard's     *)
(* debt metrics, the two months-to-goal search loops of the recommendation *)
(* tab and the debt metrics of the PDF report.                             *)
(*                                                                         *)
(* Money amounts are integers (the sidebar's number inputs have integer    *)
(* defaults and steps).  Annual rates are drawn from multiples of 12, so   *)
(* that rate / 12 and balance * rate / 12 are exact: on these inputs the   *)
(* integer arithmetic below is the arithmetic the Python code performs.    *)
(***************************************************************************)
EXTENDS Integers, Sequences, FiniteSets

VARIABLES
    \* sidebar inputs (lines 97-107)
    starting_balance, monthly_contribution, annual_return, months, target_goal,
    debt_amount, debt_apr, min_debt_payment, extra_cash,
    \* position of the script run
    pc,
    \* tab 1 (lines 129-171)
    main_forecast, debt_forecast, invest_forecast, debt_free_month,
    months_to_payoff, total_interest,
    \* tab 2 (lines 183-202)
    final_balance, total_contributions, deficit_or_surplus,
    month_counter, balance_sim, months_to_goal_current,
    month_counter_extra, balance_sim_extra, months_to_goal_extra,
    \* history of balance_sim, one entry per value it took (lines 191, 193)
    balance_sim_trace,
    \* locals of generate_pdf_report (lines 56-58)
    pdf_debt_forecast, pdf_debt_free_month, pdf_total_interest

inputs == <<starting_balance, monthly_contribution, annual_return, months,
            target_goal, debt_amount, debt_apr, min_debt_payment, extra_cash>>

tab1 == <<main_forecast, debt_forecast, invest_forecast, debt_free_month,
          months_to_payoff>>

metrics == <<final_balance, total_contributions, deficit_or_surplus>>

loop_current == <<month_counter, balance_sim, months_to_goal_current,
                  balance_sim_trace>>

loop_extra == <<month_counter_extra, balance_sim_extra, months_to_goal_extra>>

pdf == <<pdf_debt_forecast, pdf_debt_free_month, pdf_total_interest>>

vars == <<inputs, pc, tab1, total_interest, metrics, loop_current, loop_extra, pdf>>

----------------------------------------------------------------------------
(* Bounds of the input domains. *)

MaxBalance == 2
MaxContribution == 1
MaxMonths == 3
MaxGoal == 3
MaxDebt == 3
MaxPayment == 2
MaxExtra == 1

\* the longest series a search result is compared with as a whole list
SeriesDepth == 40

\* the iteration cap of both search loops (lines 192 and 199)
MonthCap == 600

\* annual_return values: -3600%, 0% and 1200% (monthly factors -2, 1 and 2)
AnnualReturns == {-36, 0, 12}

\* debt_apr values: -1200%, 0% and 1200% (monthly rates -1, 0 and 1)
DebtAprs == {-12, 0, 12}

----------------------------------------------------------------------------
(* The helper functions. *)

Max(a, b) == IF a >= b THEN a ELSE b

\* line 17 with the contribution added before the return is applied
new_balance_contribute_first(prev, mc, ar) == (prev + mc) * (1 + ar \div 12)

\* line 17: the month step of simulate_savings
new_balance(prev, mc, ar) == prev * (1 + ar \div 12) + mc

\* lines 14-19: the list simulate_savings returns (range(n) is empty for n <= 0)
RECURSIVE simulate_savings(_, _, _, _)
simulate_savings(sb, mc, ar, n) ==
    IF n <= 0 THEN <<sb>>
    ELSE LET balances == simulate_savings(sb, mc, ar, n - 1)
         IN  Append(balances, new_balance(balances[Len(balances)], mc, ar))

\* lines 25-27 without the floor at 0
debt_month_unfloored(debt_balance, mp, ec, apr) ==
    IF debt_balance > 0
    THEN LET interest == (debt_balance * apr) \div 12
         IN  debt_balance + interest - (mp + ec)
    ELSE debt_balance

\* lines 25-27 with the parentheses around the payment left out
debt_month_unparenthesised(debt_balance, mp, ec, apr) ==
    IF debt_balance > 0
    THEN LET interest == (debt_balance * apr) \div 12
         IN  Max(debt_balance + interest - mp + ec, 0)
    ELSE debt_balance

\* lines 25-27: one month of simulate_debt_payoff
debt_month(debt_balance, mp, ec, apr) ==
    IF debt_balance > 0
    THEN LET interest == (debt_balance * apr) \div 12
         IN  Max(debt_balance + interest - (mp + ec), 0)
    ELSE debt_balance

\* lines 21-29: the list simulate_debt_payoff returns
RECURSIVE simulate_debt_payoff(_, _, _, _, _)
simulate_debt_payoff(da, mp, ec, apr, n) ==
    IF n <= 0 THEN <<>>
    ELSE LET balances == simulate_debt_payoff(da, mp, ec, apr, n - 1)
             debt_balance == IF n = 1 THEN da ELSE balances[n - 1]
         IN  Append(balances, debt_month(debt_balance, mp, ec, apr))

\* lines 57 and 139: next((i for i, v in enumerate(forecast) if v <= 0), n);
\* Python's index i is position i + 1 of the sequence
first_paid_off(forecast, n) ==
    LET hits == {i \in 1..Len(forecast) : forecast[i] <= 0}
    IN  IF hits = {} THEN n
        ELSE (CHOOSE i \in hits : \A j \in hits : i <= j) - 1

\* lines 58 and 171: sum([forecast[i] * apr / 12 for i in range(upto)])
RECURSIVE interest_sum(_, _, _)
interest_sum(forecast, apr, upto) ==
    IF upto <= 0 THEN 0
    ELSE interest_sum(forecast, apr, upto - 1) + (forecast[upto] * apr) \div 12

\* line 192 with the cap compared by <= instead of <
current_loop_runs_through_cap(bal, goal, counter) == bal < goal /\ counter <= MonthCap

\* line 192: the condition of the first search loop
current_loop_runs(bal, goal, counter) == bal < goal /\ counter < MonthCap

\* line 193 with the annual return applied every month
current_loop_step_annual(bal, mc, ar) == bal * (1 + ar) + mc

\* line 193: the step of the first search loop
current_loop_step(bal, mc, ar) == bal * (1 + ar \div 12) + mc

\* line 199: the condition of the second search loop
extra_loop_runs(bal, goal, counter) == bal < goal /\ counter < MonthCap

\* line 200 with the monthly contribution left out
extra_loop_step_extra_only(bal, mc, ar, ec) == bal * (1 + ar \div 12) + ec

\* line 200: the step of the second search loop
extra_loop_step(bal, mc, ar, ec) == bal * (1 + ar \div 12) + mc + ec

----------------------------------------------------------------------------
(* The script, top to bottom. *)

\* the state before line 129, the inputs still to be chosen
Fresh ==
    /\ pc = "dashboard"
    /\ main_forecast = <<>> /\ debt_forecast = <<>> /\ invest_forecast = <<>>
    /\ debt_free_month = 0 /\ months_to_payoff = 0 /\ total_interest = 0
    /\ final_balance = 0 /\ total_contributions = 0 /\ deficit_or_surplus = 0
    /\ month_counter = 0 /\ balance_sim = 0 /\ months_to_goal_current = 0
    /\ month_counter_extra = 0 /\ balance_sim_extra = 0 /\ months_to_goal_extra = 0
    /\ balance_sim_trace = <<>>
    /\ pdf_debt_forecast = <<>> /\ pdf_debt_free_month = 0 /\ pdf_total_interest = 0

\* With a growing rate and a balance that falls in the first month, the search
\* loops double the fall 600 times: Python's floats hold the result, the model
\* checker's 32-bit integers do not.  Those inputs are left out.
Bounded ==
    annual_return > 0 =>
        /\ starting_balance + monthly_contribution >= 0
        /\ starting_balance + monthly_contribution + extra_cash >= 0

\* lines 97-101 varied, lines 104-107 fixed
InitSavings ==
    /\ starting_balance \in 0..MaxBalance
    /\ monthly_contribution \in -1..MaxContribution
    /\ annual_return \in AnnualReturns
    /\ months \in -1..MaxMonths
    /\ target_goal = MaxGoal
    /\ debt_amount = 1 /\ debt_apr = 0 /\ min_debt_payment = 1 /\ extra_cash = 0
    /\ Bounded
    /\ Fresh

\* lines 104-107 and 100 varied, the savings inputs fixed
InitDebt ==
    /\ starting_balance = 0 /\ monthly_contribution = 2 /\ annual_return = 0
    /\ target_goal = 1
    /\ months \in -1..MaxMonths
    /\ debt_amount \in -1..MaxDebt
    /\ debt_apr \in DebtAprs
    /\ min_debt_payment \in -1..MaxPayment
    /\ extra_cash \in -1..MaxExtra
    /\ Fresh

\* lines 97-99, 101 and 107 varied, the horizon and the debt inputs fixed
InitGoal ==
    /\ starting_balance \in 0..MaxBalance
    /\ monthly_contribution \in -1..MaxContribution
    /\ annual_return \in AnnualReturns
    /\ target_goal \in 1..MaxGoal
    /\ extra_cash \in -1..MaxExtra
    /\ months = 1
    /\ debt_amount = 1 /\ debt_apr = 0 /\ min_debt_payment = 1
    /\ Bounded
    /\ Fresh

Init == InitSavings \/ InitDebt \/ InitGoal

\* lines 129-171 (the charts and texts are not state)
Dashboard ==
    /\ pc = "dashboard"
    /\ main_forecast' = simulate_savings(starting_balance, monthly_contribution,
                                         annual_return, months)
    /\ debt_forecast' = simulate_debt_payoff(debt_amount, min_debt_payment,
                                             extra_cash, debt_apr, months)
    /\ invest_forecast' = simulate_savings(starting_balance,
                              monthly_contribution + extra_cash, annual_return, months)
    /\ debt_free_month' = first_paid_off(debt_forecast', months)
    /\ months_to_payoff' = debt_free_month'
    /\ total_interest' = interest_sum(debt_forecast', debt_apr, months_to_payoff')
    /\ pc' = "tab2"
    /\ UNCHANGED <<inputs, metrics, loop_current, loop_extra, pdf>>

\* lines 183-191; progress and debt_to_asset_ratio are quotients that are only
\* displayed (target_goal is drawn nonzero)
Tab2Metrics ==
    /\ pc = "tab2"
    /\ final_balance' = main_forecast[Len(main_forecast)]
    /\ total_contributions' = monthly_contribution * months + starting_balance
    /\ total_interest' = final_balance' - total_contributions'
    /\ deficit_or_surplus' = final_balance' - target_goal
    /\ month_counter' = 0
    /\ balance_sim' = starting_balance
    /\ balance_sim_trace' = <<starting_balance>>
    /\ pc' = "goal_current"
    /\ UNCHANGED <<inputs, tab1, months_to_goal_current, loop_extra, pdf>>

\* lines 192-194: one iteration of the first search loop
GoalCurrentStep ==
    /\ pc = "goal_current"
    /\ current_loop_runs(balance_sim, target_goal, month_counter)
    /\ balance_sim' = current_loop_step(balance_sim, monthly_contribution, annual_return)
    /\ month_counter' = month_counter + 1
    /\ balance_sim_trace' = Append(balance_sim_trace, balance_sim')
    /\ UNCHANGED <<inputs, pc, tab1, total_interest, metrics,
                   months_to_goal_current, loop_extra, pdf>>

\* lines 192 (condition false) and 195-198
GoalCurrentExit ==
    /\ pc = "goal_current"
    /\ ~current_loop_runs(balance_sim, target_goal, month_counter)
    /\ months_to_goal_current' = month_counter
    /\ month_counter_extra' = 0
    /\ balance_sim_extra' = starting_balance
    /\ pc' = "goal_extra"
    /\ UNCHANGED <<inputs, tab1, total_interest, metrics, month_counter,
                   balance_sim, balance_sim_trace, months_to_goal_extra, pdf>>

\* lines 199-201: one iteration of the second search loop
GoalExtraStep ==
    /\ pc = "goal_extra"
    /\ extra_loop_runs(balance_sim_extra, target_goal, month_counter_extra)
    /\ balance_sim_extra' = extra_loop_step(balance_sim_extra, monthly_contribution,
                                            annual_return, extra_cash)
    /\ month_counter_extra' = month_counter_extra + 1
    /\ UNCHANGED <<inputs, pc, tab1, total_interest, metrics, loop_current,
                   months_to_goal_extra, pdf>>

\* lines 199 (condition false) and 202
GoalExtraExit ==
    /\ pc = "goal_extra"
    /\ ~extra_loop_runs(balance_sim_extra, target_goal, month_counter_extra)
    /\ months_to_goal_extra' = month_counter_extra
    /\ pc' = "button"
    /\ UNCHANGED <<inputs, tab1, total_interest, metrics, loop_current,
                   month_counter_extra, balance_sim_extra, pdf>>

\* lines 223-225 with the button pressed: generate_pdf_report, lines 56-58
DownloadPdf ==
    /\ pc = "button"
    /\ pdf_debt_forecast' = simulate_debt_payoff(debt_amount, min_debt_payment,
                                                 extra_cash, debt_apr, months)
    /\ pdf_debt_free_month' = first_paid_off(pdf_debt_forecast', months)
    /\ pdf_total_interest' = interest_sum(pdf_debt_forecast', debt_apr,
                                          pdf_debt_free_month')
    /\ pc' = "downloaded"
    /\ UNCHANGED <<inputs, tab1, total_interest, metrics, loop_current, loop_extra>>

\* line 223 with the button not pressed
NoDownload ==
    /\ pc = "button"
    /\ pc' = "done"
    /\ UNCHANGED <<inputs, tab1, total_interest, metrics, loop_current, loop_extra, pdf>>

Next ==
    \/ Dashboard
    \/ Tab2Metrics
    \/ GoalCurrentStep
    \/ GoalCurrentExit
    \/ GoalExtraStep
    \/ GoalExtraExit
    \/ DownloadPdf
    \/ NoDownload

Spec == Init /\ [][Next]_vars

SpecSavings == InitSavings /\ [][Next]_vars

SpecDebt == InitDebt /\ [][Next]_vars

SpecGoal == InitGoal /\ [][Next]_vars

----------------------------------------------------------------------------
(* Properties. *)

\* tab 1 has run
Simulated == pc # "dashboard"

\* the first search loop has ended
SearchedCurrent == pc \in {"goal_extra", "button", "done", "downloaded"}

\* both search loops have ended
SearchedExtra == pc \in {"button", "done", "downloaded"}

\* PlanParameters as the data model constrains them
ValidPlan ==
    /\ starting_balance >= 0
    /\ monthly_contribution >= 0
    /\ annual_return >= -1
    /\ months >= 1

\* DebtParameters as the data model constrains them
ValidDebt ==
    /\ debt_amount >= 0
    /\ debt_apr >= 0
    /\ min_debt_payment >= 0
    /\ extra_cash >= 0

\* the balance a debt series starts month k with (k = 1 is the first month)
StartOfMonth(forecast, k) == IF k = 1 THEN debt_amount ELSE forecast[k - 1]

\* the interest accrued over the months of a debt series that start with a
\* positive balance
RECURSIVE AccruedInterest(_, _)
AccruedInterest(forecast, k) ==
    IF k <= 0 THEN 0
    ELSE AccruedInterest(forecast, k - 1)
         + (IF StartOfMonth(forecast, k) > 0
            THEN (StartOfMonth(forecast, k) * debt_apr) \div 12
            ELSE 0)

C2_UnreachableIsDistinguished ==
    (ValidPlan /\ extra_cash >= 0) =>
        /\ (SearchedCurrent /\ balance_sim < target_goal) =>
               months_to_goal_current \notin 0..MonthCap
        /\ (SearchedExtra /\ balance_sim_extra < target_goal) =>
               months_to_goal_extra \notin 0..MonthCap

\* C3: neither month counter ever exceeds 600, and a search loop whose counter
\* is at 600 cannot run another iteration.
C3_CountersCapped ==
    /\ month_counter \in 0..MonthCap
    /\ month_counter_extra \in 0..MonthCap
    /\ month_counter = MonthCap => ~ENABLED GoalCurrentStep
    /\ month_counter_extra = MonthCap => ~ENABLED GoalExtraStep

C3_Witness ==
    /\ SearchedExtra
    /\ monthly_contribution = 0 /\ annual_return <= 0
    /\ starting_balance < target_goal
    /\ month_counter = MonthCap /\ balance_sim < target_goal
    /\ month_counter_extra = MonthCap /\ balance_sim_extra < target_goal

C5_PayoffMonthOrNone ==
    (Simulated /\ ValidDebt /\ months >= 1) =>
        LET hits == {i \in 1..Len(debt_forecast) : debt_forecast[i] <= 0}
        IN  /\ hits # {} =>
                   /\ debt_free_month + 1 \in hits
                   /\ \A i \in hits : debt_free_month + 1 <= i
            /\ hits = {} => debt_free_month \notin Int

\* C6 as stated: for valid debt parameters and a horizon >= 1, the reported
\* total interest is the interest accrued over exactly the simulated months
\* that start with a positive balance, the first month's interest on the
\* principal included.
C6_InterestOverPositiveMonths ==
    (ValidDebt /\ months >= 1) =>
        /\ pc = "tab2" =>
               total_interest = AccruedInterest(debt_forecast, Len(debt_forecast))
        /\ pc = "downloaded" =>
               pdf_total_interest =
                   AccruedInterest(pdf_debt_forecast, Len(pdf_debt_forecast))

\* C7 as stated: with a negative horizon or a negative contribution (and a
\* starting balance and a rate in their domains) the run is rejected before any
\* simulation step: no series is ever produced.
C7_NegativeInputRejected ==
    (starting_balance >= 0 /\ annual_return >= -1
        /\ (months < 0 \/ monthly_contribution < 0)) =>
        /\ pc = "dashboard"
        /\ main_forecast = <<>>
        /\ invest_forecast = <<>>

\* C8: for valid debt parameters, from the first month whose accrued interest
\* the total payment covers, no entry of the debt series exceeds the balance
\* before it.
C8_NonIncreasingOncePaymentCoversInterest ==
    (Simulated /\ ValidDebt) =>
        \A k \in 1..Len(debt_forecast) :
            (min_debt_payment + extra_cash
                 >= (StartOfMonth(debt_forecast, k) * debt_apr) \div 12) =>
                \A j \in k..Len(debt_forecast) :
                    debt_forecast[j] <= StartOfMonth(debt_forecast, j)

C8_Witness ==
    /\ Simulated /\ ValidDebt
    /\ debt_apr > 0
    /\ Len(debt_forecast) >= 2
    /\ min_debt_payment + extra_cash >= (debt_amount * debt_apr) \div 12
    /\ debt_forecast[1] > 0
    /\ debt_forecast[1] < debt_amount
    /\ debt_forecast[2] < debt_forecast[1]

\* C9: the month count of the first search loop is the smallest index in 0..600
\* at which the simulate_savings series of the same inputs (index 0 being the
\* starting balance) is >= the goal, when there is one.  The loop's balances
\* are the series: they start at the starting balance, one month of
\* simulate_savings leads from each to the next, and up to SeriesDepth months
\* they are the list simulate_savings returns.  Every balance before the count
\* is below the goal, and the balance at the count reaches it unless the count
\* is the cap.
C9_SearchAgreesWithSeries ==
    (pc = "goal_extra" /\ month_counter_extra = 0) =>
        /\ Len(balance_sim_trace) = months_to_goal_current + 1
        /\ balance_sim_trace[1] = starting_balance
        /\ balance_sim_trace[Len(balance_sim_trace)] = balance_sim
        /\ \A m \in 1..months_to_goal_current :
               simulate_savings(balance_sim_trace[m], monthly_contribution,
                                annual_return, 1)
                   = <<balance_sim_trace[m], balance_sim_trace[m + 1]>>
        /\ months_to_goal_current <= SeriesDepth =>
               balance_sim_trace =
                   simulate_savings(starting_balance, monthly_contribution,
                                    annual_return, months_to_goal_current)
        /\ \A m \in 1..months_to_goal_current : balance_sim_trace[m] < target_goal
        /\ \/ balance_sim_trace[months_to_goal_current + 1] >= target_goal
           \/ months_to_goal_current = MonthCap

C9_Witness ==
    /\ pc = "goal_extra" /\ month_counter_extra = 0
    /\ annual_return > 0 /\ monthly_contribution > 0
    /\ months_to_goal_current \in 2..SeriesDepth
    /\ balance_sim >= target_goal

\* C10: for starting balance, contribution and extra cash >= 0 and a rate >= -1,
\* the second search loop never takes more months than the first, and after
\* every iteration its balance is >= the balance the first loop had after as
\* many iterations.
C10_ExtraNeverSlower ==
    (starting_balance >= 0 /\ monthly_contribution >= 0
        /\ annual_return >= -1 /\ extra_cash >= 0) =>
        /\ pc = "goal_extra" =>
               /\ month_counter_extra <= months_to_goal_current
               /\ balance_sim_extra >= balance_sim_trace[month_counter_extra + 1]
        /\ SearchedExtra => months_to_goal_extra <= months_to_goal_current

C10_Witness ==
    /\ SearchedExtra
    /\ starting_balance >= 0 /\ monthly_contribution >= 0
    /\ annual_return >= -1 /\ extra_cash > 0
    /\ months_to_goal_extra >= 1
    /\ months_to_goal_extra < months_to_goal_current

====
